---- MODULE Spec2Model ----
(***************************************************************************)
(* ResourceFetcher (ambassador/config/resourcefetcher.py) as a state       *)
(* machine.  Python dicts are records whose DOMAIN is the set of keys that *)
(* are present; Optional[str] values are None (<<>>) or Some(s) (<<s>>);   *)
(* a Kubernetes IntOrString is <<"int", n>> or <<"str", s>>.  The three    *)
(* side tables are insertion-ordered dicts, kept as sequences of entries.  *)
(* The operators named after the methods transform a record of the object's*)
(* fields; an action applies the operator of one public method.            *)
(***************************************************************************)
EXTENDS Integers, Sequences, FiniteSets, TLC

VARIABLES elements, filename, ocount, saved,
          k8s_endpoints, k8s_services, services,
          errors, seq, visited, raised, call, ncalls,
          enable_endpoints, single_namespace

vars == <<elements, filename, ocount, saved, k8s_endpoints, k8s_services,
          services, errors, seq, visited, raised, call, ncalls,
          enable_endpoints, single_namespace>>

(***************************************************************************)
(* Bounds of the model.                                                    *)
(***************************************************************************)
MaxCalls == 3

MaxDigitStr == 99

(***************************************************************************)
(* Python values.                                                          *)
(***************************************************************************)
None == <<>>

Some(s) == <<s>>

IntV(n) == <<"int", n>>

StrV(s) == <<"str", s>>

Has(d, k) == k \in DOMAIN d

Get(d, k, default) == IF k \in DOMAIN d THEN d[k] ELSE default

Digit(d) ==
    CASE d = 0 -> "0" [] d = 1 -> "1" [] d = 2 -> "2" [] d = 3 -> "3"
      [] d = 4 -> "4" [] d = 5 -> "5" [] d = 6 -> "6" [] d = 7 -> "7"
      [] d = 8 -> "8" [] d = 9 -> "9"

RECURSIVE DecStr(_)
DecStr(n) ==
    IF n < 0 THEN "-" \o DecStr(0 - n)
    ELSE IF n < 10 THEN Digit(n)
    ELSE DecStr(n \div 10) \o Digit(n % 10)

\* "%s" of an Optional[str]
FmtS(o) == IF o = None THEN "None" ELSE o[1]

\* truth value of an Optional[str]
TruthyS(o) == o # None /\ o[1] # ""

\* str() of an IntOrString
str(v) == IF v[1] = "int" THEN DecStr(v[2]) ELSE v[2]

\* the digit-only strings of the numbers up to MaxDigitStr
DigitStrs == {DecStr(n) : n \in 0..MaxDigitStr}

\* str(v).isdigit(), for the digit strings of numbers up to MaxDigitStr
isdigit(v) == IF v[1] = "int" THEN v[2] >= 0 ELSE v[2] \in DigitStrs

\* truth value of an IntOrString
TruthyV(v) == IF v[1] = "int" THEN v[2] # 0 ELSE v[2] # ""

(***************************************************************************)
(* Insertion-ordered dicts: a sequence of entries [k, v, src]; src is the  *)
(* encounter number of the object the value was written for.               *)
(***************************************************************************)
DictKeys(d) == {d[i].k : i \in 1..Len(d)}

DictHas(d, key) == \E i \in 1..Len(d) : d[i].k = key

DictIdx(d, key) == CHOOSE i \in 1..Len(d) : d[i].k = key

DictGet(d, key) == d[DictIdx(d, key)].v

\* a list that is appended to on every write
DictSet_append(d, key, val, src) ==
    Append(d, [k |-> key, v |-> val, src |-> src])

\* the first value written under a key stays
DictSet_keep_first(d, key, val, src) ==
    IF DictHas(d, key) THEN d
    ELSE Append(d, [k |-> key, v |-> val, src |-> src])

\* d[key] = val: an existing key keeps its place, a new key goes last
DictSet(d, key, val, src) ==
    IF DictHas(d, key)
    THEN [d EXCEPT ![DictIdx(d, key)] = [k |-> key, v |-> val, src |-> src]]
    ELSE Append(d, [k |-> key, v |-> val, src |-> src])

(***************************************************************************)
(* Config (ambassador/config/config.py), as far as the fetcher reads it.   *)
(***************************************************************************)
\* Config.ambassador_id
ambassador_id == "default"

\* Config.ambassador_namespace
ambassador_namespace == "c"

good_ambassador_id(obj) ==
    Get(obj, "ambassador_id", "default") = ambassador_id

\* ACResource.from_dict raises for an object it cannot build a resource from:
\* a resource needs a name
from_dict_raises(obj) == ~Has(obj, "name") \/ obj.name = ""

(***************************************************************************)
(* The fetcher's fields as one record.                                     *)
(***************************************************************************)
State ==
    [elements |-> elements, filename |-> filename, ocount |-> ocount,
     saved |-> saved, k8s_endpoints |-> k8s_endpoints,
     k8s_services |-> k8s_services, services |-> services,
     errors |-> errors, seq |-> seq, visited |-> visited, raised |-> raised,
     enable_endpoints |-> enable_endpoints,
     single_namespace |-> single_namespace]

SetState(s) ==
    /\ elements' = s.elements
    /\ filename' = s.filename
    /\ ocount' = s.ocount
    /\ saved' = s.saved
    /\ k8s_endpoints' = s.k8s_endpoints
    /\ k8s_services' = s.k8s_services
    /\ services' = s.services
    /\ errors' = s.errors
    /\ seq' = s.seq
    /\ visited' = s.visited
    /\ raised' = s.raised

location(st) ==
    (IF TruthyS(st.filename) THEN st.filename[1] ELSE "anonymous YAML")
        \o "." \o DecStr(st.ocount)

push_location(st, fname, oc) ==
    [st EXCEPT !.saved = Append(@, <<st.filename, st.ocount>>),
               !.filename = fname,
               !.ocount = oc]

pop_location(st) ==
    [st EXCEPT !.filename = st.saved[Len(st.saved)][1],
               !.ocount = st.saved[Len(st.saved)][2],
               !.saved = SubSeq(@, 1, Len(@) - 1)]

post_error(st, msg) == [st EXCEPT !.errors = Append(@, msg)]

(***************************************************************************)
(* process_object                                                          *)
(***************************************************************************)
isdict(obj) == ~Has(obj, "nondict")

\* without the ambassador_id filter
process_object_unfiltered(st, obj, rkey) ==
    IF ~isdict(obj)
    THEN IF obj.empty
         THEN post_error(st, "is empty")
         ELSE post_error(st, "is not a dictionary")
    ELSE IF ~Has(obj, "kind")
    THEN post_error(st, "is missing kind")
    ELSE IF obj.kind = "Pragma"
    THEN [st EXCEPT !.filename = IF Has(obj, "source") /\ obj.source # ""
                                 THEN Some(obj.source) ELSE @,
                    !.ocount = @ - 1]
    ELSE LET base == IF ~TruthyS(rkey) THEN st.filename ELSE rkey
             rk   == FmtS(base) \o "." \o DecStr(st.ocount)
         IN  IF obj.kind = "Service"
             THEN IF ~Has(obj, "name")
                  THEN [st EXCEPT !.raised = TRUE]
                  ELSE [st EXCEPT !.services =
                                     DictSet(@, obj.name, obj, st.seq)]
             ELSE IF from_dict_raises(obj)
                  THEN post_error(st, "from_dict failed")
                  ELSE [st EXCEPT !.elements =
                           Append(@, [rkey |-> rk, kind |-> obj.kind,
                                      attrs |-> obj, by |-> "process_object",
                                      src |-> st.seq, ordinal |-> st.ocount])]

process_object(st, obj, rkey) ==
    IF ~isdict(obj)
    THEN IF obj.empty
         THEN post_error(st, "is empty")
         ELSE post_error(st, "is not a dictionary")
    ELSE IF ~good_ambassador_id(obj)
    THEN st
    ELSE IF ~Has(obj, "kind")
    THEN post_error(st, "is missing kind")
    ELSE IF obj.kind = "Pragma"
    THEN [st EXCEPT !.filename = IF Has(obj, "source") /\ obj.source # ""
                                 THEN Some(obj.source) ELSE @,
                    !.ocount = @ - 1]
    ELSE LET base == IF ~TruthyS(rkey) THEN st.filename ELSE rkey
             rk   == FmtS(base) \o "." \o DecStr(st.ocount)
         IN  IF obj.kind = "Service"
             THEN IF ~Has(obj, "name")
                  THEN [st EXCEPT !.raised = TRUE]
                  ELSE [st EXCEPT !.services =
                                     DictSet(@, obj.name, obj, st.seq)]
             ELSE IF from_dict_raises(obj)
                  THEN post_error(st, "from_dict failed")
                  ELSE [st EXCEPT !.elements =
                           Append(@, [rkey |-> rk, kind |-> obj.kind,
                                      attrs |-> obj, by |-> "process_object",
                                      src |-> st.seq, ordinal |-> st.ocount])]

(***************************************************************************)
(* The per-kind decoders.  A decoder returns [st, result]: result is None  *)
(* or <<resource_identifier, parsed_objects>>.                             *)
(***************************************************************************)
AnnotationKey == "getambassador.io/config"

AnnotationSuffix == ":annotation"

\* the source labels the inputs use; no label ends with AnnotationSuffix
Labels == {"f.yaml", "g.yaml", "src"}

\* s.endswith(":annotation")
endswith_annotation(s) == \E b \in Labels : s = b \o AnnotationSuffix

\* utils.parse_yaml of a serialization: [docs |-> <<...>>], or [error |-> TRUE]
\* for text the YAML parser rejects
yaml_error(serialization) == Has(serialization, "error")

\* kind.lower(), for the kinds of the inputs
lower(kind) ==
    CASE kind = "Service" -> "service"
      [] kind = "Endpoints" -> "endpoints"
      [] kind = "Secret" -> "secret"
      [] OTHER -> kind

\* port.get('protocol', 'TCP').upper()
upper(proto) ==
    CASE proto = "tcp" -> "TCP"
      [] proto = "udp" -> "UDP"
      [] OTHER -> proto

\* the addr dict built for one subset address
endpoint_addr(address) ==
    LET ref == Get(address, "targetRef", [none |-> TRUE])
        a1 == IF Has(address, "ip") THEN [ip |-> address.ip] ELSE <<>>
        a2 == IF Has(address, "nodeName")
              THEN a1 @@ [node |-> address.nodeName] ELSE a1
        a3 == IF Has(ref, "kind") THEN a2 @@ [target_kind |-> ref.kind] ELSE a2
        a4 == IF Has(ref, "name") THEN a3 @@ [target_name |-> ref.name] ELSE a3
        a5 == IF Has(ref, "namespace")
              THEN a4 @@ [target_namespace |-> ref.namespace] ELSE a4
    IN  a5

RECURSIVE endpoint_addresses(_)
endpoint_addresses(addrs) ==
    IF addrs = <<>> THEN <<>>
    ELSE LET addr == endpoint_addr(Head(addrs))
         IN  IF DOMAIN addr # {}
             THEN <<addr>> \o endpoint_addresses(Tail(addrs))
             ELSE endpoint_addresses(Tail(addrs))

\* the port_dict built from one subset's ports, starting from acc
RECURSIVE endpoint_port_dict(_, _)
endpoint_port_dict(ports, acc) ==
    IF ports = <<>> THEN acc
    ELSE LET port == Head(ports)
             rest == Tail(ports)
         IN  IF upper(Get(port, "protocol", "TCP")) # "TCP"
             THEN endpoint_port_dict(rest, acc)
             ELSE IF ~Has(port, "port")
             THEN endpoint_port_dict(rest, acc)
             ELSE LET d1 == (str(port.port) :> port.port) @@ acc
                      d2 == IF Has(port, "name") /\ port.name # ""
                            THEN (port.name :> port.port) @@ d1
                            ELSE d1
                  IN  endpoint_port_dict(rest, d2)

RECURSIVE endpoint_subsets(_, _, _, _, _)
endpoint_subsets(st, subsets, ident, name, namespace) ==
    IF subsets = <<>> THEN st
    ELSE LET subset == Head(subsets)
             addresses == endpoint_addresses(Get(subset, "addresses", <<>>))
             port_dict == endpoint_port_dict(Get(subset, "ports", <<>>), <<>>)
             st1 == IF Len(addresses) = 0 THEN st
                    ELSE IF DOMAIN port_dict # {}
                    THEN [st EXCEPT !.k8s_endpoints =
                            DictSet(@, ident,
                                    [name |-> name, namespace |-> namespace,
                                     addresses |-> addresses,
                                     ports |-> port_dict], st.seq)]
                    ELSE st
         IN  endpoint_subsets(st1, Tail(subsets), ident, name, namespace)

handle_k8s_endpoints(st, k8s_object) ==
    LET metadata == Get(k8s_object, "metadata", <<>>)
        has_meta == DOMAIN metadata # {}
        resource_name == Get(metadata, "name", "")
        resource_namespace == Get(metadata, "namespace", "default")
        resource_subsets == Get(k8s_object, "subsets", <<>>)
        skip == ~has_meta \/ resource_name = "" \/ resource_subsets = <<>>
        ident == resource_name \o "." \o resource_namespace
    IN  IF ~st.enable_endpoints THEN [st |-> st, result |-> None]
        ELSE IF skip THEN [st |-> st, result |-> None]
        ELSE [st |-> endpoint_subsets(st, resource_subsets, ident,
                                      resource_name, resource_namespace),
              result |-> None]

handle_k8s_service(st, k8s_object) ==
    LET metadata == Get(k8s_object, "metadata", <<>>)
        has_meta == DOMAIN metadata # {}
        resource_name == Get(metadata, "name", "")
        resource_namespace == Get(metadata, "namespace", "default")
        annotations == Get(metadata, "annotations", <<>>)
        has_ann == Has(annotations, AnnotationKey)
        skip == \/ ~has_meta
                \/ resource_name = ""
                \/ (st.single_namespace
                      /\ resource_namespace # ambassador_namespace)
        ident == resource_name \o "." \o resource_namespace
        spec == Get(k8s_object, "spec", <<>>)
        ports == Get(spec, "ports", <<>>)
        st1 == IF DOMAIN spec # {} /\ ports # <<>>
               THEN [st EXCEPT !.k8s_services =
                        DictSet(@, ident,
                                [name |-> resource_name,
                                 namespace |-> resource_namespace,
                                 ports |-> ports], st.seq)]
               ELSE st
        st2 == IF has_ann /\ st1.filename # None
                    /\ ~endswith_annotation(st1.filename[1])
               THEN [st1 EXCEPT !.filename = Some(@[1] \o AnnotationSuffix)]
               ELSE st1
        objects == IF has_ann /\ ~yaml_error(annotations[AnnotationKey])
                   THEN annotations[AnnotationKey].docs
                   ELSE <<>>
    IN  IF skip THEN [st |-> st, result |-> None]
        ELSE [st |-> st2, result |-> <<ident, objects>>]

\* without the single-namespace test
handle_k8s_secret_any_namespace(st, k8s_object) ==
    LET secret_type == Get(k8s_object, "type", "")
        metadata == Get(k8s_object, "metadata", <<>>)
        resource_name == Get(metadata, "name", "")
        resource_namespace == Get(metadata, "namespace", "default")
        data == Get(k8s_object, "data", <<>>)
        skip0 == \/ (secret_type # "kubernetes.io/tls" /\ secret_type # "Opaque")
                 \/ DOMAIN data = {}
                 \/ DOMAIN metadata = {}
                 \/ resource_name = ""
        skip == skip0
        ident == resource_name \o "." \o resource_namespace
        tls_crt == Get(data, "tls.crt", "")
        tls_key == Get(data, "tls.key", "")
        info0 == [apiVersion |-> "ambassador/v1",
                  ambassador_id |-> ambassador_id,
                  kind |-> "Secret",
                  name |-> resource_name,
                  namespace |-> resource_namespace]
        info1 == IF tls_crt # "" THEN info0 @@ [tls_crt |-> tls_crt] ELSE info0
        info2 == IF tls_key # "" THEN info1 @@ [tls_key |-> tls_key] ELSE info1
    IN  IF skip THEN [st |-> st, result |-> None]
        ELSE IF tls_crt = "" /\ tls_key = "" THEN [st |-> st, result |-> None]
        ELSE [st |-> st, result |-> <<ident, <<info2>>>>]

handle_k8s_secret(st, k8s_object) ==
    LET secret_type == Get(k8s_object, "type", "")
        metadata == Get(k8s_object, "metadata", <<>>)
        resource_name == Get(metadata, "name", "")
        resource_namespace == Get(metadata, "namespace", "default")
        data == Get(k8s_object, "data", <<>>)
        skip0 == \/ (secret_type # "kubernetes.io/tls" /\ secret_type # "Opaque")
                 \/ DOMAIN data = {}
                 \/ DOMAIN metadata = {}
                 \/ resource_name = ""
        skip == \/ skip0
                \/ (st.single_namespace
                      /\ resource_namespace # ambassador_namespace)
        ident == resource_name \o "." \o resource_namespace
        tls_crt == Get(data, "tls.crt", "")
        tls_key == Get(data, "tls.key", "")
        info0 == [apiVersion |-> "ambassador/v1",
                  ambassador_id |-> ambassador_id,
                  kind |-> "Secret",
                  name |-> resource_name,
                  namespace |-> resource_namespace]
        info1 == IF tls_crt # "" THEN info0 @@ [tls_crt |-> tls_crt] ELSE info0
        info2 == IF tls_key # "" THEN info1 @@ [tls_key |-> tls_key] ELSE info1
    IN  IF skip THEN [st |-> st, result |-> None]
        ELSE IF tls_crt = "" /\ tls_key = "" THEN [st |-> st, result |-> None]
        ELSE [st |-> st, result |-> <<ident, <<info2>>>>]

RECURSIVE consul_endpoints(_)
consul_endpoints(endpoints) ==
    IF endpoints = <<>> THEN <<>>
    ELSE LET ep == Head(endpoints)
         IN  IF ~Has(ep, "Address") \/ ep.Address = ""
                  \/ ~Has(ep, "Port") \/ ep.Port = 0
             THEN consul_endpoints(Tail(endpoints))
             ELSE <<[ip |-> ep.Address, port |-> ep.Port,
                     target_kind |-> "Consul"]>>
                      \o consul_endpoints(Tail(endpoints))

\* the debug message for a skipped endpoint reads ep['ID']: KeyError without it
consul_raises(endpoints) ==
    \E i \in 1..Len(endpoints) :
        /\ \/ ~Has(endpoints[i], "Address") \/ endpoints[i].Address = ""
           \/ ~Has(endpoints[i], "Port") \/ endpoints[i].Port = 0
        /\ ~Has(endpoints[i], "ID")

handle_consul_service(st, consul_rkey, consul_object) ==
    LET endpoints == Get(consul_object, "Endpoints", <<>>)
        name == Get(consul_object, "Service", consul_rkey)
        datacenter == IF Has(consul_object, "Id") /\ consul_object.Id # ""
                      THEN consul_object.Id ELSE "dc1"
        eps == consul_endpoints(endpoints)
        svc == [apiVersion |-> "ambassador/v1",
                ambassador_id |-> ambassador_id,
                kind |-> "Service",
                name |-> name,
                datacenter |-> datacenter,
                endpoints |-> IF eps = <<>> THEN <<>> ELSE ("*" :> eps)]
    IN  IF Len(endpoints) < 1 THEN [st |-> st, result |-> None]
        ELSE IF consul_raises(endpoints)
        THEN [st |-> [st EXCEPT !.raised = TRUE], result |-> None]
        ELSE [st |-> [st EXCEPT !.services =
                         DictSet(@, "consul-" \o name \o "-" \o datacenter,
                                 svc, st.seq)],
              result |-> None]

(***************************************************************************)
(* parse_object, handle_k8s and handle_k8s_crd.  An exception that no      *)
(* handler catches sets raised and ends every enclosing call where it is.  *)
(***************************************************************************)
RECURSIVE parse_objects(_, _, _, _)
RECURSIVE parse_object(_, _, _, _, _)

\* the handler for handler_name, or no handler
handler(st, handler_name, obj) ==
    CASE handler_name = "handle_k8s_service" -> handle_k8s_service(st, obj)
      [] handler_name = "handle_k8s_endpoints" -> handle_k8s_endpoints(st, obj)
      [] handler_name = "handle_k8s_secret" -> handle_k8s_secret(st, obj)
      [] OTHER -> [st |-> st, result |-> None]

\* what handle_k8s does with its handler's result r
handle_result(r) ==
    IF r.result = None THEN r.st
    ELSE parse_object(r.st, r.result[2], FALSE, Some(r.result[1]),
                      r.st.filename)

handle_k8s(st, obj) ==
    IF Get(obj, "kind", "") = "" THEN st
    ELSE handle_result(handler(st, "handle_k8s_" \o lower(obj.kind), obj))

\* self.ocount += 1, reached unless process_object raised
count_object(p) == IF p.raised THEN p ELSE [p EXCEPT !.ocount = @ + 1]

\* the body of the loop of parse_object for one object
parse_one(st, obj, k8s, rkey) ==
    IF k8s THEN handle_k8s(st, obj)
    ELSE count_object(process_object(st, obj, rkey))

\* the rest of the loop, which an exception ends
parse_rest(s1, objects, k8s, rkey) ==
    IF s1.raised THEN s1 ELSE parse_objects(s1, objects, k8s, rkey)

\* the loop of parse_object
parse_objects(st, objects, k8s, rkey) ==
    IF objects = <<>> THEN st
    ELSE parse_rest(parse_one([st EXCEPT !.seq = @ + 1, !.visited = @ + 1],
                              Head(objects), k8s, rkey),
                    Tail(objects), k8s, rkey)

\* pop_location, reached unless the loop raised
parse_end(s1) == IF s1.raised THEN s1 ELSE pop_location(s1)

parse_object(st, objects, k8s, rkey, fname) ==
    parse_end(parse_objects(push_location(st, fname, 1), objects, k8s, rkey))

handle_k8s_crd(st, obj) ==
    LET kind == Get(obj, "kind", "")
        metadata == Get(obj, "metadata", <<>>)
        name == Get(metadata, "name", "")
        namespace == IF Get(metadata, "namespace", "") = ""
                     THEN "default" ELSE metadata.namespace
        spec == Get(obj, "spec", <<>>)
        ident == name \o "." \o namespace
        amb_object == [apiVersion |-> Get(obj, "apiVersion", ""),
                       name |-> name, kind |-> kind] @@ spec
    IN  IF kind = "" THEN st
        ELSE IF name = "" THEN st
        ELSE IF Get(obj, "apiVersion", "") = "" THEN st
        ELSE parse_object(st, <<amb_object>>, FALSE, Some(ident), st.filename)

(***************************************************************************)
(* finalize                                                                *)
(***************************************************************************)
\* the attributes tried in the reverse order
PortAttrs_reversed == <<"port", "name", "targetPort">>

PortAttrs == <<"targetPort", "name", "port">>

\* the loop over targetPort, name, port for one service port spec:
\* acc = [found_key, fallback, k8s_target]
RECURSIVE scan_attrs(_, _, _, _)
scan_attrs(port, k8s_ep_ports, i, acc) ==
    IF i > Len(PortAttrs) THEN acc
    ELSE LET attr == PortAttrs[i]
             port_key == Get(port, attr, None)
         IN  IF port_key = None \/ ~TruthyV(port_key)
             THEN scan_attrs(port, k8s_ep_ports, i + 1, acc)
             ELSE LET fallback ==
                          IF (acc.fallback = None \/ ~TruthyV(acc.fallback))
                               /\ port_key # StrV("name")
                               /\ isdigit(port_key)
                          THEN port_key ELSE acc.fallback
                      k8s_target == Get(k8s_ep_ports, str(port_key), None)
                      acc1 == [found_key |-> TRUE, fallback |-> fallback,
                               k8s_target |-> k8s_target]
                  IN  IF k8s_target # None /\ TruthyV(k8s_target)
                      THEN acc1
                      ELSE scan_attrs(port, k8s_ep_ports, i + 1, acc1)

\* the numeric candidate is forgotten
scanned_target_src_port(acc, src_port) ==
    IF ~acc.found_key THEN None
    ELSE IF acc.k8s_target = None \/ ~TruthyV(acc.k8s_target)
    THEN src_port
    ELSE acc.k8s_target

\* the target port after the loop over the attributes, None for a spec
\* that is skipped
scanned_target(acc, src_port) ==
    IF ~acc.found_key THEN None
    ELSE IF acc.k8s_target = None \/ ~TruthyV(acc.k8s_target)
    THEN IF acc.fallback # None /\ TruthyV(acc.fallback)
         THEN acc.fallback ELSE src_port
    ELSE acc.k8s_target

\* without the single-endpoint-port rule
port_target_lookup_only(port, src_port, k8s_ep_ports) ==
    scanned_target(scan_attrs(port, k8s_ep_ports, 1,
                              [found_key |-> FALSE, fallback |-> None,
                               k8s_target |-> None]),
                   src_port)

\* the target port of one service port spec whose port number is src_port,
\* or None when the spec is skipped
port_target(port, src_port, k8s_ep_ports) ==
    IF Cardinality(DOMAIN k8s_ep_ports) = 1
    THEN k8s_ep_ports[CHOOSE key \in DOMAIN k8s_ep_ports : TRUE]
    ELSE scanned_target(scan_attrs(port, k8s_ep_ports, 1,
                                   [found_key |-> FALSE, fallback |-> None,
                                    k8s_target |-> None]),
                        src_port)

\* target_ports[src_port] = k8s_target, unless the spec is skipped
set_target(target_ports, src_port, k8s_target) ==
    IF k8s_target = None THEN target_ports
    ELSE (src_port :> k8s_target) @@ target_ports

\* target_ports after the loop over the service's port specs
RECURSIVE service_target_ports(_, _, _)
service_target_ports(ports, k8s_ep_ports, target_ports) ==
    IF ports = <<>> THEN target_ports
    ELSE IF ~Has(Head(ports), "port") \/ ~TruthyV(Head(ports).port)
    THEN service_target_ports(Tail(ports), k8s_ep_ports, target_ports)
    ELSE service_target_ports(
             Tail(ports), k8s_ep_ports,
             set_target(target_ports, Head(ports).port,
                        port_target(Head(ports), Head(ports).port,
                                    k8s_ep_ports)))

\* target_addrs collected from the endpoint entry's addresses
RECURSIVE endpoint_ips(_)
endpoint_ips(addrs) ==
    IF addrs = <<>> THEN <<>>
    ELSE IF Has(Head(addrs), "ip") /\ Head(addrs).ip # ""
    THEN <<Head(addrs).ip>> \o endpoint_ips(Tail(addrs))
    ELSE endpoint_ips(Tail(addrs))

\* only the first target address is listed
service_endpoints_first_address(target_ports, target_addrs) ==
    [target_ports |-> target_ports, target_addrs |-> target_addrs,
     svc_endpoints |->
        [src_port \in DOMAIN target_ports |->
            <<[ip |-> target_addrs[1], port |-> target_ports[src_port]]>>]]

\* svc_endpoints built from target_ports and target_addrs
service_endpoints(target_ports, target_addrs) ==
    [target_ports |-> target_ports, target_addrs |-> target_addrs,
     svc_endpoints |->
        [src_port \in DOMAIN target_ports |->
            [i \in 1..Len(target_addrs) |->
                [ip |-> target_addrs[i], port |-> target_ports[src_port]]]]]

\* if not target_addrs: target_addrs = [ key ]
or_service_name(target_addrs, key) ==
    IF target_addrs = <<>> THEN <<key>> ELSE target_addrs

\* the locals of finalize for a service with the endpoint entry k8s_ep
resolve_with(key, k8s_svc, k8s_ep) ==
    IF DOMAIN Get(k8s_ep, "ports", <<>>) = {}
    THEN service_endpoints(<<>>, <<key>>)
    ELSE service_endpoints(
             service_target_ports(k8s_svc.ports, k8s_ep.ports, <<>>),
             or_service_name(endpoint_ips(Get(k8s_ep, "addresses", <<>>)),
                             key))

\* the locals of finalize for the k8s_services entry under key
resolve_service(st, key, k8s_svc) ==
    IF ~DictHas(st.k8s_endpoints, key)
    THEN service_endpoints(<<>>, <<key>>)
    ELSE resolve_with(key, k8s_svc, DictGet(st.k8s_endpoints, key))

k8s_key(k8s_name, k8s_namespace) == "k8s-" \o k8s_name \o "-" \o k8s_namespace

\* the Service resource for a k8s_services entry
resolved_resource(k8s_svc, svc_endpoints) ==
    [apiVersion |-> "ambassador/v1",
     ambassador_id |-> ambassador_id,
     kind |-> "Service",
     name |-> k8s_svc.name,
     namespace |-> k8s_svc.namespace,
     endpoints |-> svc_endpoints]

\* the first loop of finalize, from the i-th entry of k8s_services on
RECURSIVE finalize_services(_, _)
finalize_services(st, i) ==
    IF i > Len(st.k8s_services) THEN st
    ELSE finalize_services(
             [st EXCEPT !.services =
                 DictSet(@, k8s_key(st.k8s_services[i].v.name,
                                    st.k8s_services[i].v.namespace),
                         resolved_resource(
                             st.k8s_services[i].v,
                             resolve_service(st, st.k8s_services[i].k,
                                             st.k8s_services[i].v).svc_endpoints),
                         st.k8s_services[i].src)],
             i + 1)

\* the second loop of finalize: one resource per services entry
service_elements(svcs) ==
    [i \in 1..Len(svcs) |->
        [rkey |-> svcs[i].k, kind |-> "Service", attrs |-> svcs[i].v,
         by |-> "finalize", src |-> svcs[i].src, ordinal |-> 0]]

\* the number of resources the second loop appends: all of els, or those
\* before the first one ACResource.from_dict rejects
appendable(els) ==
    IF \A i \in 1..Len(els) : ~from_dict_raises(els[i].attrs) THEN Len(els)
    ELSE (CHOOSE i \in 1..Len(els) :
              /\ from_dict_raises(els[i].attrs)
              /\ \A j \in 1..(i - 1) : ~from_dict_raises(els[j].attrs)) - 1

\* the second loop of finalize; from_dict is not guarded there, and the
\* first entry it rejects ends the loop with an exception
append_services(s1, els) ==
    [s1 EXCEPT !.elements = @ \o SubSeq(els, 1, appendable(els)),
               !.raised = (appendable(els) < Len(els))]

with_service_elements(s1) == append_services(s1, service_elements(s1.services))

\* the Service resources put before the resources already there
finalize_prepend(st) ==
    [finalize_services(st, 1) EXCEPT
        !.elements = service_elements(finalize_services(st, 1).services) \o @]

finalize(st) == with_service_elements(finalize_services(st, 1))

(***************************************************************************)
(* The public methods.                                                     *)
(***************************************************************************)
\* if finalize: self.finalize(), reached unless an exception got out
then_finalize(s1, fin) ==
    IF s1.raised THEN s1
    ELSE IF fin THEN finalize(s1) ELSE s1

parse_yaml(st, serialization, k8s, rkey, fname, fin) ==
    then_finalize(IF yaml_error(serialization)
                  THEN post_error(st, "could not parse YAML")
                  ELSE parse_object(st, serialization.docs, k8s, rkey, fname),
                  fin)

\* json.loads in place of utils.parse_yaml, otherwise the same
parse_json(st, serialization, k8s, rkey, fname, fin) ==
    then_finalize(IF yaml_error(serialization)
                  THEN post_error(st, "could not parse YAML")
                  ELSE parse_object(st, serialization.docs, k8s, rkey, fname),
                  fin)

(***************************************************************************)
(* parse_watt: watt is [error |-> TRUE] for text json.loads rejects, or    *)
(* [Kubernetes |-> [<key> |-> <<objects>>], Consul |-> [Endpoints |->      *)
(* <<[key, object]>>]], each key optional.                                 *)
(***************************************************************************)
WattK8sKeys == <<"service", "endpoints", "secret">>

WattCrdKeys ==
    <<"AuthService", "ConsulResolver", "KubernetesEndpointResolver",
      "KubernetesServiceResolver", "Mapping", "Module", "RateLimitService",
      "TCPMapping", "TLSContext", "TracingService", "ClusterIngress">>

\* the objects under keys[i..], in the order the loops visit them
RECURSIVE watt_objects(_, _, _)
watt_objects(watt_k8s, keys, i) ==
    IF i > Len(keys) THEN <<>>
    ELSE Get(watt_k8s, keys[i], <<>>) \o watt_objects(watt_k8s, keys, i + 1)

RECURSIVE watt_handle_k8s(_, _)
watt_handle_k8s(st, objs) ==
    IF objs = <<>> \/ st.raised THEN st
    ELSE watt_handle_k8s(handle_k8s([st EXCEPT !.seq = @ + 1], Head(objs)),
                         Tail(objs))

RECURSIVE watt_handle_crd(_, _)
watt_handle_crd(st, objs) ==
    IF objs = <<>> \/ st.raised THEN st
    ELSE watt_handle_crd(handle_k8s_crd([st EXCEPT !.seq = @ + 1], Head(objs)),
                         Tail(objs))

RECURSIVE watt_handle_consul(_, _)
watt_handle_consul(st, entries) ==
    IF entries = <<>> \/ st.raised THEN st
    ELSE watt_handle_consul(
             handle_consul_service([st EXCEPT !.seq = @ + 1],
                                   Head(entries).key, Head(entries).object).st,
             Tail(entries))

\* the two marker files
watt_markers(st, ignore_crds, ignore_crds_2) ==
    [st EXCEPT !.errors =
        @ \o (IF ignore_crds
              THEN <<"could not find core CRD definitions">> ELSE <<>>)
          \o (IF ignore_crds_2
              THEN <<"could not find Resolver type CRD definitions">>
              ELSE <<>>)]

\* the try block of parse_watt
watt_body(st, watt) ==
    IF yaml_error(watt) THEN post_error(st, "could not parse WATT")
    ELSE watt_handle_consul(
             watt_handle_crd(
                 watt_handle_k8s(
                     st, watt_objects(Get(watt, "Kubernetes", <<>>),
                                      WattK8sKeys, 1)),
                 watt_objects(Get(watt, "Kubernetes", <<>>), WattCrdKeys, 1)),
             Get(Get(watt, "Consul", <<>>), "Endpoints", <<>>))

parse_watt(st, watt, fin, ignore_crds, ignore_crds_2) ==
    then_finalize(watt_body(watt_markers(st, ignore_crds, ignore_crds_2), watt),
                  fin)

(***************************************************************************)
(* load_from_filesystem: inputs is the list of files found, each           *)
(* [filename, text], or [filename, unreadable |-> TRUE] when open() fails. *)
(***************************************************************************)
load_input(st, f, k8s) ==
    IF Has(f, "unreadable") THEN post_error(st, "could not read YAML")
    ELSE parse_yaml(st, f.text, k8s, None, Some(f.filename), FALSE)

RECURSIVE load_inputs(_, _, _)
load_inputs(st, inputs, k8s) ==
    IF inputs = <<>> \/ st.raised THEN st
    ELSE load_inputs(load_input(st, Head(inputs), k8s), Tail(inputs), k8s)

load_from_filesystem(st, inputs, k8s, fin) ==
    then_finalize(load_inputs(st, inputs, k8s), fin)

(***************************************************************************)
(* The calls.  call describes the last call: its method and arguments,     *)
(* what the fetcher held when it began, and what ran before it.            *)
(***************************************************************************)
\* the state a public method starts from
Begin == [State EXCEPT !.raised = FALSE, !.visited = 0]

Called(op, fin, k8s, objs) ==
    /\ call' = [op |-> op, finalize |-> fin, k8s |-> k8s, objs |-> objs,
                seq0 |-> seq, nel0 |-> Len(elements),
                saved0 |-> saved, filename0 |-> filename, ocount0 |-> ocount,
                after_finalize |-> (call.finalize /\ ~raised),
                finalized_before |->
                    call.finalized_before + (IF call.finalize THEN 1 ELSE 0)]
    /\ ncalls' = ncalls + 1
    /\ UNCHANGED <<enable_endpoints, single_namespace>>

Docs(serialization) ==
    IF yaml_error(serialization) THEN <<>> ELSE serialization.docs

ParseYaml(serialization, k8s, rkey, fname, fin) ==
    /\ ncalls < MaxCalls
    /\ SetState(parse_yaml(Begin, serialization, k8s, rkey, fname, fin))
    /\ Called("parse_yaml", fin, k8s, Docs(serialization))

ParseJson(serialization, k8s, rkey, fname, fin) ==
    /\ ncalls < MaxCalls
    /\ SetState(parse_json(Begin, serialization, k8s, rkey, fname, fin))
    /\ Called("parse_json", fin, k8s, Docs(serialization))

ParseWatt(watt, fin, ignore_crds, ignore_crds_2) ==
    /\ ncalls < MaxCalls
    /\ SetState(parse_watt(Begin, watt, fin, ignore_crds, ignore_crds_2))
    /\ Called("parse_watt", fin, TRUE, <<>>)

LoadFromFilesystem(inputs, k8s, fin) ==
    /\ ncalls < MaxCalls
    /\ SetState(load_from_filesystem(Begin, inputs, k8s, fin))
    /\ Called("load_from_filesystem", fin, k8s, <<>>)

Finalize ==
    /\ ncalls < MaxCalls
    /\ SetState(finalize(Begin))
    /\ Called("finalize", TRUE, FALSE, <<>>)

Init ==
    /\ elements = <<>>
    /\ filename = None
    /\ ocount = 1
    /\ saved = <<>>
    /\ k8s_endpoints = <<>>
    /\ k8s_services = <<>>
    /\ services = <<>>
    /\ errors = <<>>
    /\ seq = 0
    /\ visited = 0
    /\ raised = FALSE
    /\ call = [op |-> "init", finalize |-> FALSE, k8s |-> FALSE, objs |-> <<>>,
               seq0 |-> 0, nel0 |-> 0, saved0 |-> <<>>, filename0 |-> None,
               ocount0 |-> 1, after_finalize |-> FALSE,
               finalized_before |-> 0]
    /\ ncalls = 0
    /\ enable_endpoints \in BOOLEAN
    /\ single_namespace \in BOOLEAN

(***************************************************************************)
(* Kubernetes Service and Endpoints inputs of the resolution checks.  The  *)
(* two services have different name.namespace keys.                        *)
(***************************************************************************)
K8sServiceObj(name, namespace, ports) ==
    [kind |-> "Service",
     metadata |-> [name |-> name, namespace |-> namespace],
     spec |-> [ports |-> ports]]

K8sEndpointsObj(name, namespace, subsets) ==
    [kind |-> "Endpoints",
     metadata |-> [name |-> name, namespace |-> namespace],
     subsets |-> subsets]

PortsA == <<[port |-> IntV(80), targetPort |-> StrV("http")]>>

PortsB == <<[port |-> IntV(80)], [port |-> IntV(443)]>>

ServicePortLists ==
    { PortsA,
      PortsB,
      <<[port |-> IntV(80), name |-> StrV("https"),
         targetPort |-> StrV("http")]>>,
      <<[name |-> StrV("http")],
        [port |-> IntV(80), name |-> StrV("http"),
         targetPort |-> StrV("nomatch")]>>,
      <<[port |-> IntV(443), name |-> StrV("nomatch"),
         targetPort |-> IntV(9999)]>>,
      <<[port |-> IntV(53), name |-> StrV("https")],
        [port |-> IntV(53), name |-> StrV("http")]>> }

SubsetsOne ==
    <<[addresses |-> <<[ip |-> "10.0.0.1"]>>,
       ports |-> <<[port |-> IntV(8080)]>>]>>

SubsetsNamed ==
    <<[addresses |-> <<[ip |-> "10.0.0.1", nodeName |-> "n1"],
                       [ip |-> "10.0.0.2",
                        targetRef |-> [kind |-> "Pod", name |-> "p",
                                       namespace |-> "c"]]>>,
       ports |-> <<[name |-> "http", port |-> IntV(8080)],
                   [name |-> "https", port |-> IntV(8443),
                    protocol |-> "tcp"]>>]>>

EndpointSubsetLists ==
    { SubsetsOne,
      SubsetsNamed,
      <<[addresses |-> <<[ip |-> "10.0.0.1"]>>,
         ports |-> <<[name |-> "80", port |-> IntV(8080)],
                     [name |-> "443", port |-> IntV(8443)]>>]>>,
      <<[addresses |-> <<[nodeName |-> "n1"]>>,
         ports |-> <<[name |-> "http", port |-> IntV(8080)]>>]>>,
      <<[ports |-> <<[port |-> IntV(8080)]>>],
        [addresses |-> <<[hostname |-> "h"]>>,
         ports |-> <<[port |-> IntV(8080)]>>]>>,
      <<[addresses |-> <<[ip |-> "10.0.0.1"]>>,
         ports |-> <<[port |-> IntV(8080)]>>],
        [addresses |-> <<[ip |-> "10.0.0.2"]>>,
         ports |-> <<[name |-> "http", port |-> IntV(8443)],
                     [port |-> IntV(53), protocol |-> "UDP"]>>],
        [addresses |-> <<[ip |-> "10.0.0.3"]>>,
         ports |-> <<[port |-> IntV(53), protocol |-> "udp"]>>]>> }

\* further port specs to resolve against the port maps: a digit-only
\* targetPort string, a digit-only name, a port called name
ProbePorts ==
    { [port |-> IntV(80), targetPort |-> StrV("90")],
      [port |-> IntV(80), name |-> StrV("name")],
      [port |-> IntV(80), name |-> StrV("70"), targetPort |-> StrV("web")],
      [port |-> IntV(81), name |-> StrV("web"), targetPort |-> StrV("nomatch")] }

\* the last one has no ports and is not stored
K8sServiceObjs ==
    { K8sServiceObj("a-b", "c", ports) : ports \in ServicePortLists }
      \cup { K8sServiceObj("a", "b-c", ports) : ports \in {PortsA, PortsB} }
      \cup { K8sServiceObj("a-b", "c", <<>>) }

\* directly declared Services to store: under the key of a resolved
\* Service, under a new key, and one the ambassador-id filter rejects
ServiceProbes ==
    { [apiVersion |-> "ambassador/v1", kind |-> "Service",
       name |-> "k8s-a-b-c", service |-> "x"],
      [apiVersion |-> "ambassador/v1", kind |-> "Service", name |-> "svc"],
      [apiVersion |-> "ambassador/v1", kind |-> "Service",
       name |-> "k8s-a-b-c", ambassador_id |-> "other"] }

K8sEndpointsObjs ==
    { K8sEndpointsObj("a-b", "c", subsets) : subsets \in EndpointSubsetLists }
      \cup { K8sEndpointsObj("a", "b-c", subsets) :
                 subsets \in {SubsetsOne, SubsetsNamed} }

Doc(obj) == [docs |-> <<obj>>]

(***************************************************************************)
(* SpecResolve: endpoint routing is enabled; Kubernetes objects arrive one *)
(* at a time; a call that brings Endpoints finalizes or not.               *)
(***************************************************************************)
\* endpoint routing enabled, all namespaces watched
InitRouting == Init /\ enable_endpoints /\ ~single_namespace

K8sService ==
    \E obj \in K8sServiceObjs :
        ParseYaml(Doc(obj), TRUE, None, Some("f.yaml"), FALSE)

K8sEndpoints ==
    \E obj \in K8sEndpointsObjs, fin \in BOOLEAN :
        ParseYaml(Doc(obj), TRUE, None, Some("f.yaml"), fin)

NextResolve == K8sService \/ K8sEndpoints \/ Finalize

SpecResolve == InitRouting /\ [][NextResolve]_vars

(***************************************************************************)
(* Application-resource inputs.                                            *)
(***************************************************************************)
Mapping1 == [apiVersion |-> "ambassador/v1", kind |-> "Mapping", name |-> "m1"]

MappingOther ==
    [apiVersion |-> "ambassador/v1", kind |-> "Mapping", name |-> "m2",
     ambassador_id |-> "other"]

Pragma1 == [kind |-> "Pragma", source |-> "src"]

PragmaOther ==
    [kind |-> "Pragma", source |-> "elsewhere", ambassador_id |-> "other"]

ServiceDirect ==
    [apiVersion |-> "ambassador/v1", kind |-> "Service", name |-> "svc"]

ServiceOther ==
    [apiVersion |-> "ambassador/v1", kind |-> "Service", name |-> "svc2",
     ambassador_id |-> "other"]

ServiceNoName == [apiVersion |-> "ambassador/v1", kind |-> "Service"]

MappingNoName == [apiVersion |-> "ambassador/v1", kind |-> "Mapping"]

NoKind == [apiVersion |-> "ambassador/v1", name |-> "m3"]

EmptyDoc == [nondict |-> TRUE, empty |-> TRUE]

ScalarDoc == [nondict |-> TRUE, empty |-> FALSE]

AppObjs ==
    {Mapping1, MappingOther, Pragma1, PragmaOther, ServiceDirect, ServiceOther,
     ServiceNoName, MappingNoName, NoKind, EmptyDoc, ScalarDoc}

MaxBatch == 3

RECURSIVE Batches(_)
Batches(n) ==
    IF n = 0 THEN {<<>>}
    ELSE LET shorter == Batches(n - 1)
         IN  shorter \cup {Append(b, o) : b \in {c \in shorter : Len(c) = n - 1},
                                          o \in AppObjs}

(***************************************************************************)
(* SpecStream: one stream of application resources through parse_object,   *)
(* with or without an rkey, finalized in the same call or by a later       *)
(* finalize.                                                               *)
(***************************************************************************)
StreamYaml ==
    /\ ncalls = 0
    /\ \E objs \in Batches(MaxBatch), rkey \in {None, Some("r")},
          fin \in BOOLEAN :
           ParseYaml([docs |-> objs], FALSE, rkey, Some("f.yaml"), fin)

StreamFinalize == ncalls = 1 /\ Finalize

NextStream == StreamYaml \/ StreamFinalize

SpecStream == InitRouting /\ [][NextStream]_vars

(***************************************************************************)
(* SpecCycle: files, Kubernetes objects with annotations, CRDs, snapshots  *)
(* and finalize in any order.                                              *)
(***************************************************************************)
AnnotatedService(text) ==
    [kind |-> "Service",
     metadata |-> [name |-> "a-b", namespace |-> "c",
                   annotations |-> (AnnotationKey :> text)],
     spec |-> [ports |-> PortsA]]

Crd(kind, name) ==
    [kind |-> kind, apiVersion |-> "getambassador.io/v1",
     metadata |-> [name |-> name], spec |-> [prefix |-> "/"]]

ConsulEntry ==
    [key |-> "consul-svc",
     object |-> [Service |-> "svc", Id |-> "dc2",
                 Endpoints |-> <<[ID |-> "e1", Address |-> "10.1.0.1",
                                  Port |-> 9000],
                                 [ID |-> "e2", Address |-> "10.1.0.2"]>>]]

Snapshot1 ==
    [Kubernetes |->
        [service |-> <<AnnotatedService([docs |-> <<ServiceDirect, Mapping1>>])>>,
         endpoints |-> <<K8sEndpointsObj("a-b", "c", SubsetsNamed)>>,
         secret |-> <<[kind |-> "Secret", type |-> "Opaque",
                       metadata |-> [name |-> "s"],
                       data |-> ("tls.crt" :> "crt")]>>],
     Consul |-> [Endpoints |-> <<ConsulEntry>>]]

Snapshot2 ==
    [Kubernetes |->
        [Mapping |-> <<Crd("Mapping", "foo"), Crd("Mapping", "")>>,
         TLSContext |-> <<Crd("TLSContext", "foo")>>]]

\* [watt, fin, ignore_crds, ignore_crds_2]
WattCalls ==
    { <<Snapshot1, TRUE, FALSE, FALSE>>, <<Snapshot1, FALSE, TRUE, TRUE>>,
      <<Snapshot2, TRUE, TRUE, FALSE>>, <<[error |-> TRUE], FALSE, FALSE, TRUE>> }

Files1 ==
    <<[filename |-> "f.yaml", text |-> [docs |-> <<Pragma1, Mapping1>>]],
      [filename |-> "g.yaml", unreadable |-> TRUE],
      [filename |-> "g.yaml", text |-> [docs |-> <<Mapping1>>]],
      [filename |-> "g.yaml", text |-> [docs |-> <<Mapping1>>]]>>

\* [inputs, fin]
LoadCalls ==
    { <<Files1, TRUE>>, <<Files1, FALSE>>,
      <<<<[filename |-> "f.yaml", text |-> [error |-> TRUE]]>>, FALSE>> }

\* [text, fin]
YamlCalls ==
    { <<[docs |-> <<Mapping1, ServiceDirect>>], TRUE>>,
      <<[docs |-> <<Mapping1, ServiceDirect>>], FALSE>>,
      <<[docs |-> <<Pragma1, Mapping1>>], FALSE>>,
      <<[error |-> TRUE], TRUE>> }

\* [annotation text, fin]
K8sCalls ==
    { <<[docs |-> <<Pragma1, Mapping1>>], TRUE>>,
      <<[docs |-> <<Pragma1, Mapping1>>], FALSE>>,
      <<[error |-> TRUE], FALSE>> }

\* [text, fin]
JsonCalls ==
    { <<[docs |-> <<Mapping1>>], TRUE>>, <<[docs |-> <<Mapping1>>], FALSE>>,
      <<[error |-> TRUE], FALSE>> }

CycleYaml ==
    \E c \in YamlCalls : ParseYaml(c[1], FALSE, None, Some("g.yaml"), c[2])

CycleK8s ==
    \E c \in K8sCalls :
        ParseYaml(Doc(AnnotatedService(c[1])), TRUE, None, Some("f.yaml"), c[2])

CycleJson ==
    \E c \in JsonCalls : ParseJson(c[1], FALSE, Some("r"), None, c[2])

CycleWatt == \E c \in WattCalls : ParseWatt(c[1], c[2], c[3], c[4])

CycleLoad == \E c \in LoadCalls : LoadFromFilesystem(c[1], FALSE, c[2])

NextCycle ==
    CycleYaml \/ CycleK8s \/ CycleJson \/ CycleWatt \/ CycleLoad \/ Finalize

SpecCycle == InitRouting /\ [][NextCycle]_vars

(***************************************************************************)
(* SpecDecode: WATT snapshots that hold one Secret or one Consul catalog   *)
(* entry, decoded one or two in a row and then finalized, with and without *)
(* single-namespace mode.                                                  *)
(***************************************************************************)
SecretTypes == {"Opaque", "kubernetes.io/tls", "Generic"}

SecretMetas ==
    {[name |-> "s"], [name |-> "s", namespace |-> ambassador_namespace],
     [name |-> "s", namespace |-> "d"]}

SecretDatas ==
    {("tls.crt" :> "crt"), ("tls.key" :> "key"),
     ("tls.crt" :> "crt") @@ ("tls.key" :> "key"),
     ("tls.crt" :> "") @@ ("tls.key" :> "key"),
     ("ca.crt" :> "ca")}

SecretObjs ==
    {[kind |-> "Secret", type |-> t, metadata |-> m, data |-> d] :
         t \in SecretTypes, m \in SecretMetas, d \in SecretDatas}
    \cup {[kind |-> "Secret", metadata |-> [name |-> "s"],
           data |-> ("tls.crt" :> "crt")],
          [kind |-> "Secret", type |-> "Opaque", data |-> ("tls.crt" :> "crt")],
          [kind |-> "Secret", type |-> "Opaque",
           metadata |-> [namespace |-> ambassador_namespace],
           data |-> ("tls.crt" :> "crt")],
          [kind |-> "Secret", type |-> "Opaque", metadata |-> [name |-> "s"]]}

ConsulEps ==
    {<<[ID |-> "e1", Address |-> "10.1.0.1", Port |-> 9000]>>,
     <<[ID |-> "e1", Address |-> "10.1.0.1", Port |-> 9000],
       [ID |-> "e2", Address |-> "10.1.0.2", Port |-> 9000]>>,
     <<[ID |-> "e1", Address |-> "10.1.0.1", Port |-> 9000],
       [ID |-> "e2", Address |-> "10.1.0.2"]>>,
     <<[ID |-> "e1", Port |-> 9000],
       [ID |-> "e2", Address |-> "10.1.0.2", Port |-> 9001]>>,
     <<[ID |-> "e1", Address |-> "10.1.0.1"]>>,
     <<[Address |-> "10.1.0.1", Port |-> 9000],
       [Address |-> "10.1.0.2", Port |-> 9001]>>,
     <<[Address |-> "10.1.0.1", Port |-> 9000], [Address |-> "10.1.0.2"]>>,
     <<>>}

ConsulEntries ==
    {[key |-> "rk", object |-> [Service |-> "svc", Id |-> "dc2",
                                Endpoints |-> eps]] : eps \in ConsulEps}
    \cup {[key |-> "rk", object |-> [Endpoints |-> eps]] : eps \in ConsulEps}
    \cup {[key |-> "rk", object |-> [Service |-> "svc"]]}

DecodeSecret ==
    /\ ncalls <= 1
    /\ \E s \in SecretObjs :
           ParseWatt([Kubernetes |-> [secret |-> <<s>>]], FALSE, FALSE, FALSE)

DecodeConsul ==
    /\ ncalls <= 1
    /\ \E e \in ConsulEntries :
           ParseWatt([Consul |-> [Endpoints |-> <<e>>]], FALSE, FALSE, FALSE)

DecodeFinalize == ncalls >= 1 /\ Finalize

NextDecode == DecodeSecret \/ DecodeConsul \/ DecodeFinalize

InitDecode == Init /\ enable_endpoints

SpecDecode == InitDecode /\ [][NextDecode]_vars

(***************************************************************************)
(* Properties of finalize.                                                 *)
(***************************************************************************)
\* the last call ran finalize to its end
JustFinalized == call.finalize /\ ~raised

HasEndpoints(key) == DictHas(k8s_endpoints, key)

EndpointPorts(key) == DictGet(k8s_endpoints, key).ports

\* the services entry written for the i-th k8s_services entry is still the
\* one finalize left: no later entry was written under the same services key
LastWriter(i) ==
    \A j \in (i + 1)..Len(k8s_services) :
        k8s_key(k8s_services[j].v.name, k8s_services[j].v.namespace)
            # k8s_key(k8s_services[i].v.name, k8s_services[i].v.namespace)

\* the j-th port spec is the last of its service with its port number
LastSpec(ports, j) ==
    \A m \in (j + 1)..Len(ports) : Get(ports[m], "port", None) # ports[j].port

Resolved(i) ==
    DictGet(services, k8s_key(k8s_services[i].v.name,
                              k8s_services[i].v.namespace))

\* every endpoint listed for src_port in a resolved resource has port target
AllTarget(svc, src_port, target) ==
    /\ src_port \in DOMAIN svc.endpoints
    /\ Len(svc.endpoints[src_port]) > 0
    /\ \A e \in 1..Len(svc.endpoints[src_port]) :
           svc.endpoints[src_port][e].port = target

\* C1: when the endpoint port map of a service has exactly one entry, every
\* port spec with a port number resolves to that entry's target port,
\* whatever its targetPort, name and port are; after finalize the resolved
\* resource lists that target port under the spec's source port.
C1_SingleEndpointPort ==
    \A i \in 1..Len(k8s_services) :
        LET key == k8s_services[i].k
            ports == k8s_services[i].v.ports
        IN  (HasEndpoints(key) /\ Cardinality(DOMAIN EndpointPorts(key)) = 1)
            => LET single == CHOOSE t \in {EndpointPorts(key)[n] :
                                             n \in DOMAIN EndpointPorts(key)} : TRUE
                   r == resolve_service(State, key, k8s_services[i].v)
               IN  \A j \in 1..Len(ports) :
                       Has(ports[j], "port")
                       => /\ r.target_ports[ports[j].port] = single
                          /\ (JustFinalized /\ LastWriter(i))
                             => AllTarget(Resolved(i), ports[j].port, single)

\* C1 witness: finalize has resolved a service port whose targetPort is a
\* name against a one-entry port map.
C1_Witness ==
    /\ JustFinalized
    /\ \E i \in 1..Len(k8s_services) :
           /\ k8s_services[i].v.ports = PortsA
           /\ HasEndpoints(k8s_services[i].k)
           /\ Cardinality(DOMAIN EndpointPorts(k8s_services[i].k)) = 1
           /\ LastWriter(i)
           /\ AllTarget(Resolved(i), IntV(80), IntV(8080))

\* C2: after finalize, every k8s_services entry without a k8s_endpoints
\* entry has a Service resource under k8s-<name>-<namespace>, its address
\* list is [name.namespace], and that resource carries no concrete
\* endpoint IP.
C2_ServiceRoutingFallback ==
    JustFinalized
    => \A i \in 1..Len(k8s_services) :
           LET key == k8s_services[i].k
               rkey == k8s_key(k8s_services[i].v.name,
                               k8s_services[i].v.namespace)
           IN  ~HasEndpoints(key)
               => /\ resolve_service(State, key, k8s_services[i].v).target_addrs
                        = <<key>>
                  /\ DictHas(services, rkey)
                  /\ \E e \in 1..Len(elements) :
                         elements[e].rkey = rkey /\ elements[e].kind = "Service"
                  /\ \A src \in DOMAIN DictGet(services, rkey).endpoints :
                         \A e \in 1..Len(DictGet(services, rkey).endpoints[src]) :
                             DictGet(services, rkey).endpoints[src][e].ip = key

\* the resources the last finalize appended
Appended(els, svcs) == SubSeq(els, Len(els) - Len(svcs) + 1, Len(els))

\* C3: a finalize that directly follows a finalize leaves the services
\* table as it is and appends resources identical in key and content to
\* those the first one appended.
C3_FinalizeIdempotent ==
    [][(JustFinalized /\ call'.op = "finalize")
         => /\ services' = services
            /\ Appended(elements', services') = Appended(elements, services)
            /\ Len(elements') = Len(elements) + Len(services)]_vars

\* C3 witness: a second finalize in a row has run over a service that was
\* resolved to endpoint addresses.
C3_Witness ==
    /\ call.op = "finalize"
    /\ call.after_finalize
    /\ ~raised
    /\ \E i \in 1..Len(services) :
           \E src \in DOMAIN services[i].v.endpoints :
               services[i].v.endpoints[src][1].ip = "10.0.0.1"

(***************************************************************************)
(* Properties of the output sequence.                                      *)
(***************************************************************************)
FromDecoder(i) == elements[i].by = "process_object"

FromFinalize(i) == elements[i].by = "finalize"

\* C4 as stated: every resource process_object appended comes before every
\* resource finalize appended, and the resources of each of the two groups
\* are in the order their source objects were encountered.
C4_DecodersThenFinalizers ==
    \A i, j \in 1..Len(elements) :
        i < j =>
            /\ FromFinalize(i) => FromFinalize(j)
            /\ elements[i].by = elements[j].by
                   => elements[i].src <= elements[j].src

\* C4 amended: while no operation before the current one ran finalize, the
\* resources of process_object come before those of finalize and are in
\* encounter order, and a finalize that ran to its end has appended one
\* resource per services-table entry, in the order of the table's keys.
C4_SingleFinalizeOrder ==
    call.finalized_before = 0 =>
        /\ \A i, j \in 1..Len(elements) :
               i < j =>
                   /\ FromFinalize(i) => FromFinalize(j)
                   /\ (FromDecoder(i) /\ FromDecoder(j))
                          => elements[i].src < elements[j].src
        /\ JustFinalized =>
               /\ Len(elements) >= Len(services)
               /\ \A i \in 1..Len(services) :
                      /\ Appended(elements, services)[i].rkey = services[i].k
                      /\ FromFinalize(Len(elements) - Len(services) + i)
               /\ \A i \in 1..(Len(elements) - Len(services)) : FromDecoder(i)

\* C4 witness: the only finalize of a cycle of two or more operations has
\* appended Service resources after resources of process_object, and two of
\* the Service resources are not in the order their sources were encountered.
C4_Witness ==
    /\ JustFinalized
    /\ call.finalized_before = 0
    /\ ncalls >= 2
    /\ \E i, j \in 1..Len(elements) :
           i < j /\ FromDecoder(i) /\ FromFinalize(j)
    /\ \E i, j \in 1..Len(elements) :
           /\ i < j
           /\ FromFinalize(i) /\ FromFinalize(j)
           /\ elements[i].src > elements[j].src

\* the objects of the stream that the ambassador-id filter rejects
Filtered(o) == isdict(o) /\ ~good_ambassador_id(o)

\* C5: an object the ambassador-id filter rejects leaves the fetcher as it
\* was (no element, no services entry, no change of the source label, also
\* for a Pragma), and no resource of elements or entry of the services table,
\* before or after finalize, derives from such an object.
C5_FilteredLeavesNoTrace ==
    /\ \A o \in AppObjs, rk \in {None, Some("r")} :
           Filtered(o) => process_object(State, o, rk) = State
    /\ \A i \in 1..Len(elements) : good_ambassador_id(elements[i].attrs)
    /\ \A i \in 1..Len(services) : good_ambassador_id(services[i].v)
    /\ filename # Some(PragmaOther.source)

\* C5 witness: a stream with a rejected Pragma, a rejected Service and an
\* accepted Mapping was processed and finalized.
C5_Witness ==
    /\ call.op = "parse_yaml"
    /\ JustFinalized
    /\ call.objs = <<PragmaOther, ServiceOther, Mapping1>>
    /\ Len(elements) = 1
    /\ services = <<>>

IsPragma(o) == Has(o, "kind") /\ o.kind = "Pragma"

\* the number of objects before position p of the stream that are no Pragma
NonPragmaBefore(objs, p) ==
    Cardinality({q \in 1..(p - 1) : ~IsPragma(objs[q])})

\* C6: in a stream of application resources (k8s false) a Pragma consumes
\* no ordinal: the ordinal in the key of a stored object is 1 plus the number
\* of objects before it in the stream that are no Pragma.
C6_PragmaTakesNoOrdinal ==
    (call.op = "parse_yaml" /\ ~call.k8s) =>
        \A i \in (call.nel0 + 1)..Len(elements) :
            FromDecoder(i) =>
                elements[i].ordinal
                    = 1 + NonPragmaBefore(call.objs,
                                          elements[i].src - call.seq0)

\* C7: within a cycle that has not finalized before the current operation,
\* no two resources of elements have the same rkey.
C7_UniqueRkeys ==
    call.finalized_before = 0 =>
        \A i, j \in 1..Len(elements) :
            i # j => elements[i].rkey # elements[j].rkey

\* C8: every object of a batch of application resources is processed,
\* whatever happened to the objects before it, and no exception leaves the
\* operation.
C8_BatchNeverAborted ==
    (call.op \in {"parse_yaml", "parse_json"} /\ ~call.k8s) =>
        /\ visited = Len(call.objs)
        /\ ~raised

\* C11: when an operation that ran parse_object has ended, normally or
\* because the processing of an object failed, the stack of saved locations
\* is the one from before the operation and the current source label and
\* ordinal are those from before it.
C11_LocationRestored ==
    call.op \in {"parse_yaml", "parse_json"} =>
        /\ saved = call.saved0
        /\ filename = call.filename0
        /\ ocount = call.ocount0

(***************************************************************************)
(* Properties of the side tables.                                          *)
(***************************************************************************)
\* t2 is t with val written under key: one entry per key, val under key,
\* every other entry as it was
Overwritten(t, t2, key, val) ==
    /\ DictKeys(t2) = DictKeys(t) \cup {key}
    /\ Len(t2) = Cardinality(DictKeys(t2))
    /\ DictGet(t2, key) = val
    /\ \A k \in DictKeys(t) \ {key} : DictGet(t2, k) = DictGet(t, k)

Ident(o) ==
    o.metadata.name \o "." \o Get(o.metadata, "namespace", "default")

\* the Service has ports to store
WritesService(o) == Has(o, "spec") /\ Get(o.spec, "ports", <<>>) # <<>>

ServiceEntry(o) ==
    [name |-> o.metadata.name,
     namespace |-> Get(o.metadata, "namespace", "default"),
     ports |-> o.spec.ports]

\* the subset has addresses and ports to store
SubsetWrites(s) ==
    /\ endpoint_addresses(Get(s, "addresses", <<>>)) # <<>>
    /\ DOMAIN endpoint_port_dict(Get(s, "ports", <<>>), <<>>) # {}

WritingSubsets(o) == SelectSeq(o.subsets, SubsetWrites)

\* the entry of the last subset that writes
EndpointsEntry(o, ws) ==
    [name |-> o.metadata.name,
     namespace |-> Get(o.metadata, "namespace", "default"),
     addresses |-> endpoint_addresses(Get(ws[Len(ws)], "addresses", <<>>)),
     ports |-> endpoint_port_dict(Get(ws[Len(ws)], "ports", <<>>), <<>>)]

\* the tables after the one Kubernetes object o of a call was decoded
TablesAfter(o, svcs, svcs2, eps, eps2) ==
    /\ o.kind = "Service" =>
           /\ eps2 = eps
           /\ IF WritesService(o)
              THEN Overwritten(svcs, svcs2, Ident(o), ServiceEntry(o))
              ELSE svcs2 = svcs
    /\ o.kind = "Endpoints" =>
           /\ svcs2 = svcs
           /\ IF WritingSubsets(o) # <<>>
              THEN Overwritten(eps, eps2, Ident(o),
                               EndpointsEntry(o, WritingSubsets(o)))
              ELSE eps2 = eps

\* the services table after a directly declared Service was processed
ServicesAfter(o, svcs, svcs2) ==
    IF good_ambassador_id(o) THEN Overwritten(svcs, svcs2, o.name, o)
    ELSE svcs2 = svcs

\* C17: the side tables are last-write-wins.  After a Kubernetes Service or
\* Endpoints object is decoded, the entry of k8s_services or k8s_endpoints
\* under its key is the one of this object (for Endpoints, of its last
\* subset that has addresses and ports) and every other entry is as before;
\* an object that is dropped changes no table.  The same holds for the
\* services table and a directly declared Service.
C17_LastWriteWins ==
    /\ [](\A o \in ServiceProbes :
              ServicesAfter(o, services,
                            process_object(Begin, o, None).services))
    /\ [][(call'.op = "parse_yaml" /\ call'.k8s /\ Len(call'.objs) = 1)
            => TablesAfter(call'.objs[1], k8s_services, k8s_services',
                           k8s_endpoints, k8s_endpoints')]_vars

\* C17 witness: the Service object of the last call has written again an
\* entry of k8s_services that is older than another key of the table.
C17_Witness ==
    /\ call.op = "parse_yaml"
    /\ call.objs[1].kind = "Service"
    /\ \E i, j \in 1..Len(k8s_services) :
           /\ i < j
           /\ k8s_services[i].src = seq
           /\ k8s_services[i].k = Ident(call.objs[1])

\* C18: finalize produces one resolved Service resource per k8s_services
\* entry.  In a cycle without Consul and directly declared Services, after
\* its first finalize: no two k8s_services entries have the same
\* k8s-<name>-<namespace> key, and the services table and the resources
\* finalize appended are as many as the k8s_services entries.
C18_OneResourcePerService ==
    (JustFinalized /\ call.finalized_before = 0) =>
        /\ \A i, j \in 1..Len(k8s_services) :
               i # j => k8s_key(k8s_services[i].v.name,
                                k8s_services[i].v.namespace)
                          # k8s_key(k8s_services[j].v.name,
                                    k8s_services[j].v.namespace)
        /\ Len(services) = Len(k8s_services)
        /\ Cardinality({e \in 1..Len(elements) : FromFinalize(e)})
               = Len(k8s_services)

(***************************************************************************)
(* Properties of the Consul and Secret decoders.                           *)
(***************************************************************************)
\* the endpoint has an address and a port
HasBoth(ep) ==
    /\ Has(ep, "Address") /\ ep.Address # ""
    /\ Has(ep, "Port") /\ ep.Port # 0

UsableEps(eps) == SelectSeq(eps, HasBoth)

\* one {ip, port, target_kind} per endpoint with both, in input order
ConsulTargets(eps) ==
    [i \in 1..Len(UsableEps(eps)) |->
        [ip |-> UsableEps(eps)[i].Address, port |-> UsableEps(eps)[i].Port,
         target_kind |-> "Consul"]]

ConsulKey(e) ==
    "consul-" \o Get(e.object, "Service", e.key) \o "-"
        \o (IF Has(e.object, "Id") THEN e.object.Id ELSE "dc1")

\* r is what the decoder made of entry e in state st
ConsulDecoded(st, e, r) ==
    /\ ~r.st.raised
    /\ r.result = None
    /\ r.st.elements = st.elements
    /\ [r.st EXCEPT !.services = st.services] = st
    /\ DictKeys(r.st.services) = DictKeys(st.services) \cup {ConsulKey(e)}
    /\ \A k \in DictKeys(st.services) \ {ConsulKey(e)} :
           DictGet(r.st.services, k) = DictGet(st.services, k)
    /\ DictHas(r.st.services, ConsulKey(e))
    /\ Get(DictGet(r.st.services, ConsulKey(e)).endpoints, "*", <<>>)
           = ConsulTargets(e.object.Endpoints)

\* C12: for a catalog entry with at least one endpoint the Consul decoder
\* writes the one services entry consul-<name>-<datacenter>, whose
\* endpoints['*'] holds, in input order, one {ip, port, target_kind: Consul}
\* per endpoint with Address and Port and none for the others; it appends
\* nothing to elements and returns no fragments.
C12_ConsulDecoder ==
    \A e \in ConsulEntries :
        Len(Get(e.object, "Endpoints", <<>>)) >= 1 =>
            ConsulDecoded(Begin, e,
                          handle_consul_service(Begin, e.key, e.object))

\* the data bag has a value under the key
Present(data, k) == Has(data, k) /\ data[k] # ""

\* the conditions under which a Secret is to yield a fragment
SecretEligible(st, s) ==
    /\ Get(s, "type", "") \in {"kubernetes.io/tls", "Opaque"}
    /\ Has(s, "data") /\ DOMAIN s.data # {}
    /\ Has(s, "metadata") /\ Present(s.metadata, "name")
    /\ st.single_namespace
           => Get(s.metadata, "namespace", "default") = ambassador_namespace
    /\ Present(s.data, "tls.crt") \/ Present(s.data, "tls.key")

\* the one fragment of a decoder's result
Fragment(r) == r.result[2][1]

\* r is what the decoder made of Secret s in state st
SecretDecoded(st, s, r) ==
    /\ r.st = st
    /\ IF SecretEligible(st, s)
       THEN /\ r.result # None
            /\ Len(r.result[2]) = 1
            /\ Fragment(r).kind = "Secret"
            /\ Fragment(r).name = s.metadata.name
            /\ Has(Fragment(r), "tls_crt") <=> Present(s.data, "tls.crt")
            /\ Has(Fragment(r), "tls_key") <=> Present(s.data, "tls.key")
            /\ Get(Fragment(r), "tls_crt", "") = Get(s.data, "tls.crt", "")
            /\ Get(Fragment(r), "tls_key", "") = Get(s.data, "tls.key", "")
       ELSE r.result = None

\* C13: the Secret decoder yields exactly one Secret fragment, with tls_crt
\* iff tls.crt is present and tls_key iff tls.key is present, when the type
\* is kubernetes.io/tls or Opaque, the secret has data, metadata and a name,
\* lies in the configured namespace in single-namespace mode and has one of
\* tls.crt and tls.key; otherwise it yields nothing; it changes no state.
C13_SecretDecoder ==
    \A s \in SecretObjs :
        SecretDecoded(Begin, s, handle_k8s_secret(Begin, s))

\* C13 witness: in single-namespace mode a snapshot with a Secret of the
\* configured namespace that has tls.crt only was decoded into a Secret
\* resource with tls_crt and without tls_key.
C13_Witness ==
    /\ single_namespace
    /\ call.op = "parse_watt"
    /\ ~raised
    /\ \E i \in 1..Len(elements) :
           /\ elements[i].kind = "Secret"
           /\ elements[i].attrs.namespace = ambassador_namespace
           /\ Has(elements[i].attrs, "tls_crt")
           /\ ~Has(elements[i].attrs, "tls_key")

(***************************************************************************)
(* Properties of the port and address resolution.                          *)
(***************************************************************************)
\* the port map value under the first of targetPort, name, port that the
\* spec has and that is a key of the map; None when there is none
FirstHit(port, ep_ports) ==
    IF Has(port, "targetPort") /\ str(port.targetPort) \in DOMAIN ep_ports
    THEN ep_ports[str(port.targetPort)]
    ELSE IF Has(port, "name") /\ str(port.name) \in DOMAIN ep_ports
    THEN ep_ports[str(port.name)]
    ELSE IF Has(port, "port") /\ str(port.port) \in DOMAIN ep_ports
    THEN ep_ports[str(port.port)]
    ELSE None

\* C9: when the endpoint port map has two or more entries, a port spec
\* resolves to the map value under the first of its targetPort, name, port
\* that is a key of the map; after finalize the resolved resource lists
\* that target under the spec's source port.
C9_FirstHitWins ==
    \A i \in 1..Len(k8s_services) :
        LET key == k8s_services[i].k
            ports == k8s_services[i].v.ports
        IN  (HasEndpoints(key) /\ Cardinality(DOMAIN EndpointPorts(key)) >= 2)
            => \A j \in 1..Len(ports) :
                   (Has(ports[j], "port")
                      /\ FirstHit(ports[j], EndpointPorts(key)) # None)
                   => /\ port_target(ports[j], ports[j].port, EndpointPorts(key))
                            = FirstHit(ports[j], EndpointPorts(key))
                      /\ (JustFinalized /\ LastWriter(i) /\ LastSpec(ports, j))
                         => AllTarget(Resolved(i), ports[j].port,
                                      FirstHit(ports[j], EndpointPorts(key)))

\* C9 witness: finalize has resolved a spec whose targetPort and name are
\* both keys of the map, under different target ports, to the targetPort's.
C9_Witness ==
    /\ JustFinalized
    /\ \E i \in 1..Len(k8s_services) :
           /\ HasEndpoints(k8s_services[i].k)
           /\ LastWriter(i)
           /\ \E j \in 1..Len(k8s_services[i].v.ports) :
                  LET port == k8s_services[i].v.ports[j]
                      m == EndpointPorts(k8s_services[i].k)
                  IN  /\ Has(port, "port") /\ Has(port, "name")
                      /\ Has(port, "targetPort")
                      /\ str(port.targetPort) \in DOMAIN m
                      /\ str(port.name) \in DOMAIN m
                      /\ m[str(port.targetPort)] # m[str(port.name)]
                      /\ AllTarget(Resolved(i), port.port,
                                   m[str(port.targetPort)])

\* the first of targetPort, name, port of the spec that is digit-only
FirstDigit(port) ==
    IF Has(port, "targetPort") /\ TruthyV(port.targetPort)
         /\ isdigit(port.targetPort)
    THEN port.targetPort
    ELSE IF Has(port, "name") /\ TruthyV(port.name) /\ isdigit(port.name)
    THEN port.name
    ELSE port.port

\* the port specs stored for the i-th service and the further ones
SpecsOf(i) ==
    {k8s_services[i].v.ports[j] : j \in 1..Len(k8s_services[i].v.ports)}
        \cup ProbePorts

\* C14: when the endpoint port map has two or more entries and none of the
\* targetPort, name, port of a port spec is a key of it, the spec resolves
\* to the first of these values that is digit-only, which exists because
\* the spec's port is one; after finalize the resolved resource lists that
\* target under the spec's source port.
C14_NumericFallback ==
    \A i \in 1..Len(k8s_services) :
        (HasEndpoints(k8s_services[i].k)
           /\ Cardinality(DOMAIN EndpointPorts(k8s_services[i].k)) >= 2)
        => /\ \A port \in SpecsOf(i) :
                  (Has(port, "port")
                     /\ FirstHit(port, EndpointPorts(k8s_services[i].k)) = None)
                  => /\ port_target(port, port.port,
                                    EndpointPorts(k8s_services[i].k))
                           = FirstDigit(port)
                     /\ FirstDigit(port) # None
           /\ \A j \in 1..Len(k8s_services[i].v.ports) :
                  (/\ Has(k8s_services[i].v.ports[j], "port")
                   /\ FirstHit(k8s_services[i].v.ports[j],
                               EndpointPorts(k8s_services[i].k)) = None
                   /\ JustFinalized /\ LastWriter(i)
                   /\ LastSpec(k8s_services[i].v.ports, j))
                  => AllTarget(Resolved(i), k8s_services[i].v.ports[j].port,
                               FirstDigit(k8s_services[i].v.ports[j]))

\* C14 witness: finalize has resolved, against a port map of two or more
\* entries, a spec none of whose values is a key of the map to its numeric
\* targetPort, which is not its port.
C14_Witness ==
    /\ JustFinalized
    /\ \E i \in 1..Len(k8s_services) :
           /\ HasEndpoints(k8s_services[i].k)
           /\ Cardinality(DOMAIN EndpointPorts(k8s_services[i].k)) >= 2
           /\ LastWriter(i)
           /\ \E j \in 1..Len(k8s_services[i].v.ports) :
                  /\ Has(k8s_services[i].v.ports[j], "port")
                  /\ Has(k8s_services[i].v.ports[j], "targetPort")
                  /\ FirstHit(k8s_services[i].v.ports[j],
                              EndpointPorts(k8s_services[i].k)) = None
                  /\ k8s_services[i].v.ports[j].targetPort
                         # k8s_services[i].v.ports[j].port
                  /\ AllTarget(Resolved(i), k8s_services[i].v.ports[j].port,
                               k8s_services[i].v.ports[j].targetPort)

HasIp(addr) == Has(addr, "ip")

\* the IPs of the stored addresses that have one, in address order
IpsOf(addrs) ==
    [a \in 1..Len(SelectSeq(addrs, HasIp)) |-> SelectSeq(addrs, HasIp)[a].ip]

\* the IPs that survive for the service under key
SurvivingIps(key) ==
    IF HasEndpoints(key)
    THEN IpsOf(Get(DictGet(k8s_endpoints, key), "addresses", <<>>))
    ELSE <<>>

\* the target addresses of the service under key
TargetAddrs(key) ==
    IF SurvivingIps(key) = <<>> THEN <<key>> ELSE SurvivingIps(key)

\* list holds one {ip, port} per address of addrs, in order, with port target
OnePerAddress(list, addrs, target) ==
    /\ Len(list) = Len(addrs)
    /\ \A e \in 1..Len(list) :
           list[e] = [ip |-> addrs[e], port |-> target]

\* C15: in a resolved Service resource written by finalize every key of
\* the endpoints map is the port number of one of the service's port specs
\* (a spec without a port number gives no key), and the value under it is
\* the list of one {ip, port} per target address, in address order, each
\* with the target port that source port resolves to.
C15_EndpointsPerSourcePort ==
    JustFinalized =>
        \A i \in 1..Len(k8s_services) :
            LastWriter(i) =>
                /\ \A sp \in DOMAIN Resolved(i).endpoints :
                       \E j \in 1..Len(k8s_services[i].v.ports) :
                           /\ Has(k8s_services[i].v.ports[j], "port")
                           /\ k8s_services[i].v.ports[j].port = sp
                           /\ LastSpec(k8s_services[i].v.ports, j)
                           /\ OnePerAddress(
                                  Resolved(i).endpoints[sp],
                                  TargetAddrs(k8s_services[i].k),
                                  port_target(k8s_services[i].v.ports[j], sp,
                                              EndpointPorts(k8s_services[i].k)))
                /\ \A j \in 1..Len(k8s_services[i].v.ports) :
                       (HasEndpoints(k8s_services[i].k)
                          /\ Has(k8s_services[i].v.ports[j], "port"))
                       => k8s_services[i].v.ports[j].port
                              \in DOMAIN Resolved(i).endpoints

\* C15 witness: finalize has written a resource for a service with two
\* port specs, one of them without a port number, and two endpoint
\* addresses: one key, two entries under it.
C15_Witness ==
    /\ JustFinalized
    /\ \E i \in 1..Len(k8s_services) :
           /\ LastWriter(i)
           /\ Len(k8s_services[i].v.ports) = 2
           /\ ~Has(k8s_services[i].v.ports[1], "port")
           /\ Cardinality(DOMAIN Resolved(i).endpoints) = 1
           /\ \A sp \in DOMAIN Resolved(i).endpoints :
                  Len(Resolved(i).endpoints[sp]) = 2

\* C16: when no target address survives for a service (no endpoints entry,
\* or an entry none of whose addresses has an ip), the address list is the
\* single name.namespace and the resource finalize emits has no per-port
\* entry in its endpoints map.
C16_NoAddressNoPortMapping ==
    JustFinalized =>
        \A i \in 1..Len(k8s_services) :
            (LastWriter(i) /\ SurvivingIps(k8s_services[i].k) = <<>>)
            => /\ resolve_service(State, k8s_services[i].k,
                                  k8s_services[i].v).target_addrs
                      = <<k8s_services[i].k>>
               /\ DOMAIN Resolved(i).endpoints = {}

\* C10: every address the Endpoints decoder stores carries an IP, so an
\* entry exists in k8s_endpoints only with at least one address that has
\* one.
C10_OnlyAddressesWithIP ==
    \A i \in 1..Len(k8s_endpoints) :
        \A a \in 1..Len(k8s_endpoints[i].v.addresses) :
            Has(k8s_endpoints[i].v.addresses[a], "ip")
====
